---- MODULE Spec2Model ----
(***************************************************************************)
(* Model of the HealthAssist symptom checker (ADHI2307/404NF_C2C).         *)
(*                                                                         *)
(*   - the response normalizer  AIService.parseAIResponse                  *)
(*   - the provider dispatcher  AIService.diagnose / call<Provider>        *)
(*   - the top-level            diagnose  /  getAIService                  *)
(*   - the UI glue              App.handleSubmitSymptoms,                  *)
(*                              SymptomForm.handleSubmit                   *)
(*                                                                         *)
(* Numbers that carry a confidence are kept in tenths: 0.5 is 5, 1 is 10.  *)
(* A response text is a sequence of lexical tokens; the braces, brackets,  *)
(* commas and colons of the text are tokens of their own, so the brace     *)
(* match of parseAIResponse and JSON.parse work on what the text holds.    *)
(***************************************************************************)
EXTENDS Integers, Sequences, FiniteSets, TLC

VARIABLES
    \* ---- the normalizer under test (specification NormSpec) ----
    responseText,       \* the text handed to parseAIResponse (token sequence)
    doc,                \* the JSON value the text was written from (or Undefined)
    prefix,             \* the tokens written before the document
    suffix,             \* the tokens written after the document
    parseResult,        \* what parseAIResponse returned or threw
    normPc,             \* "ready" | "done"
    \* ---- the process environment, read once (import.meta.env) ----
    AI_SERVICE,         \* VITE_AI_SERVICE || 'gemini'
    config,             \* AI_CONFIG[AI_SERVICE]: which of its fields are set
    \* ---- module state of the AI service ----
    aiServiceInstance,  \* "null" | "instance"
    \* ---- SymptomForm ----
    freeTextSymptoms,   \* the text area, a sequence of characters
    selectedSymptoms,   \* the ticked symptoms, in the order they were ticked
    images,             \* number of attached images
    isLoading,
    alerted,            \* the last event on the form ended in its alert(...)
    \* ---- App ----
    results,            \* [set |-> FALSE] is null; else the records shown
    hasImages,
    \* ---- the diagnosis requests: those in flight and the last settled ----
    requests

normVars == <<responseText, doc, prefix, suffix, parseResult, normPc>>
envVars  == <<AI_SERVICE, config, aiServiceInstance>>
formVars == <<freeTextSymptoms, selectedSymptoms, images, isLoading, alerted>>
appVars  == <<results, hasImages>>
flowVars == <<AI_SERVICE, config, aiServiceInstance, freeTextSymptoms,
              selectedSymptoms, images, isLoading, alerted, results, hasImages,
              requests>>
vars == <<responseText, doc, prefix, suffix, parseResult, normPc,
          AI_SERVICE, config, aiServiceInstance, freeTextSymptoms,
          selectedSymptoms, images, isLoading, alerted, results, hasImages,
          requests>>

(***************************************************************************)
(* JavaScript values, as far as JSON can carry them.                       *)
(***************************************************************************)
Undefined == [t |-> "undefined"]
Null      == [t |-> "null"]
NaN       == [t |-> "NaN"]
Num(n)    == [t |-> "number", n |-> n]
Str(s)    == [t |-> "string", s |-> s]
Bool(b)   == [t |-> "boolean", b |-> b]
Arr(a)    == [t |-> "array", a |-> a]
Obj(o)    == [t |-> "object", o |-> o]
Member(k, v) == [k |-> k, v |-> v]

\* 0.5, 0 and 1 of line 541, and 0.7 of getMockFallback, in tenths
ConfidenceDefault == 5
ConfidenceMin == 0
ConfidenceMax == 10
MockConfidence == 7

\* x || y of JavaScript: the falsy values
Truthy(v) ==
    CASE v.t = "undefined" -> FALSE
      [] v.t = "null"      -> FALSE
      [] v.t = "NaN"       -> FALSE
      [] v.t = "number"    -> v.n # 0
      [] v.t = "string"    -> v.s # ""
      [] v.t = "boolean"   -> v.b
      [] OTHER             -> TRUE

JsOr(v, dflt) == IF Truthy(v) THEN v ELSE dflt

IsArray(v) == v.t = "array"

\* obj.key : the last member of that name wins in JSON.parse; a primitive or
\* an array has none of the keys read here.  null.key is a TypeError, which
\* the callers test for before they call Get.
RECURSIVE LookUp(_, _, _)
LookUp(o, key, i) ==
    IF i = 0 THEN Undefined
    ELSE IF o[i].k = key THEN o[i].v ELSE LookUp(o, key, i - 1)

Get(v, key) == IF v.t = "object" THEN LookUp(v.o, key, Len(v.o)) ELSE Undefined

\* Number(s) for the strings of the model, in tenths ("" and blanks are 0)
StringToNumber(s) ==
    CASE s = ""     -> Num(0)
      [] s = " "    -> Num(0)
      [] s = "0.8"  -> Num(8)
      [] s = "1.4"  -> Num(14)
      [] s = "-0.3" -> Num(-3)
      [] OTHER      -> NaN

\* ToNumber of the language, as Math.max and Math.min apply it
ToNumber(v) ==
    CASE v.t = "undefined" -> NaN
      [] v.t = "null"      -> Num(0)
      [] v.t = "NaN"       -> NaN
      [] v.t = "number"    -> v
      [] v.t = "boolean"   -> IF v.b THEN Num(10) ELSE Num(0)
      [] v.t = "string"    -> StringToNumber(v.s)
      [] v.t = "array"     ->
            IF Len(v.a) = 0 THEN Num(0)
            ELSE IF Len(v.a) > 1 THEN NaN
            ELSE CASE v.a[1].t \in {"null", "undefined"} -> Num(0)
                   [] v.a[1].t = "number" -> v.a[1]
                   [] v.a[1].t = "string" -> StringToNumber(v.a[1].s)
                   [] OTHER -> NaN
      [] OTHER             -> NaN

MathMax(a, b) ==
    LET x == ToNumber(a)
        y == ToNumber(b)
    IN  IF x.t = "NaN" \/ y.t = "NaN" THEN NaN
        ELSE IF x.n >= y.n THEN x ELSE y

MathMin(a, b) ==
    LET x == ToNumber(a)
        y == ToNumber(b)
    IN  IF x.t = "NaN" \/ y.t = "NaN" THEN NaN
        ELSE IF x.n <= y.n THEN x ELSE y

(***************************************************************************)
(* Texts.  A token is a record; k is its lexical class.                    *)
(***************************************************************************)
Tok(k)    == [k |-> k]
StrTok(s) == [k |-> "str", s |-> s]
NumTok(n) == [k |-> "num", n |-> n]
LBrace == Tok("{")
RBrace == Tok("}")
Prose  == Tok("p")      \* a run of characters that is neither JSON nor a brace
Space  == Tok("w")      \* white space

\* JSON.stringify, token by token
RECURSIVE Stringify(_)
RECURSIVE StringifyElems(_, _)
RECURSIVE StringifyMembers(_, _)
Stringify(v) ==
    CASE v.t = "null"    -> <<Tok("null")>>
      [] v.t = "number"  -> <<NumTok(v.n)>>
      [] v.t = "string"  -> <<StrTok(v.s)>>
      [] v.t = "boolean" -> IF v.b THEN <<Tok("true")>> ELSE <<Tok("false")>>
      [] v.t = "array"   -> <<Tok("[")>> \o StringifyElems(v.a, 1) \o <<Tok("]")>>
      [] v.t = "object"  -> <<LBrace>> \o StringifyMembers(v.o, 1) \o <<RBrace>>
      [] OTHER           -> <<Tok("null")>>
StringifyElems(a, i) ==
    IF i > Len(a) THEN <<>>
    ELSE Stringify(a[i])
         \o (IF i < Len(a) THEN <<Tok(",")>> ELSE <<>>)
         \o StringifyElems(a, i + 1)
StringifyMembers(o, i) ==
    IF i > Len(o) THEN <<>>
    ELSE <<StrTok(o[i].k), Tok(":")>> \o Stringify(o[i].v)
         \o (IF i < Len(o) THEN <<Tok(",")>> ELSE <<>>)
         \o StringifyMembers(o, i + 1)

\* JSON.parse: recursive descent.  A result is [ok, v, i]: i is the index of
\* the first token not consumed.
ParseFail == [ok |-> FALSE, v |-> Undefined, i |-> 0]
ParseOk(v, i) == [ok |-> TRUE, v |-> v, i |-> i]

RECURSIVE SkipWs(_, _)
SkipWs(ts, i) ==
    IF i <= Len(ts) /\ ts[i].k = "w" THEN SkipWs(ts, i + 1) ELSE i

KindAt(ts, i) == IF i <= Len(ts) THEN ts[i].k ELSE "eof"

RECURSIVE ParseValue(_, _)
RECURSIVE ParseElems(_, _, _)
RECURSIVE ParseMembers(_, _, _)
ParseValue(ts, i0) ==
    LET i == SkipWs(ts, i0)
        k == KindAt(ts, i)
    IN  CASE k = "null"  -> ParseOk(Null, i + 1)
          [] k = "true"  -> ParseOk(Bool(TRUE), i + 1)
          [] k = "false" -> ParseOk(Bool(FALSE), i + 1)
          [] k = "num"   -> ParseOk(Num(ts[i].n), i + 1)
          [] k = "str"   -> ParseOk(Str(ts[i].s), i + 1)
          [] k = "["     ->
                IF KindAt(ts, SkipWs(ts, i + 1)) = "]"
                THEN ParseOk(Arr(<<>>), SkipWs(ts, i + 1) + 1)
                ELSE ParseElems(ts, i + 1, <<>>)
          [] k = "{"     ->
                IF KindAt(ts, SkipWs(ts, i + 1)) = "}"
                THEN ParseOk(Obj(<<>>), SkipWs(ts, i + 1) + 1)
                ELSE ParseMembers(ts, i + 1, <<>>)
          [] OTHER       -> ParseFail
\* after "[" or after ",": one value, then "," or "]"
ParseElems(ts, i0, acc) ==
    LET r == ParseValue(ts, i0)
    IN  IF ~r.ok THEN ParseFail
        ELSE LET j == SkipWs(ts, r.i)
                 k == KindAt(ts, j)
             IN  CASE k = "," -> ParseElems(ts, j + 1, Append(acc, r.v))
                   [] k = "]" -> ParseOk(Arr(Append(acc, r.v)), j + 1)
                   [] OTHER   -> ParseFail
\* after "{" or after ",": a string key, ":", a value, then "," or "}"
ParseMembers(ts, i0, acc) ==
    LET i == SkipWs(ts, i0)
    IN  IF KindAt(ts, i) # "str" THEN ParseFail
        ELSE LET c == SkipWs(ts, i + 1)
             IN  IF KindAt(ts, c) # ":" THEN ParseFail
                 ELSE LET r == ParseValue(ts, c + 1)
                      IN  IF ~r.ok THEN ParseFail
                          ELSE LET j == SkipWs(ts, r.i)
                                   k == KindAt(ts, j)
                                   m == Append(acc, Member(ts[i].s, r.v))
                               IN  CASE k = "," -> ParseMembers(ts, j + 1, m)
                                     [] k = "}" -> ParseOk(Obj(m), j + 1)
                                     [] OTHER   -> ParseFail

\* JSON.parse(text): the whole text must be one value
JSONParse(ts) ==
    LET r == ParseValue(ts, 1)
    IN  IF r.ok /\ SkipWs(ts, r.i) > Len(ts) THEN r ELSE ParseFail

(***************************************************************************)
(* AIService.parseAIResponse                                               *)
(***************************************************************************)
Min(S) == CHOOSE x \in S : \A y \in S : x <= y
Max(S) == CHOOSE x \in S : \A y \in S : x >= y

IndicesOf(ts, k) == {i \in 1..Len(ts) : ts[i].k = k}

\* responseText.match(/\{[\s\S]*\}/): leftmost "{", then greedily up to the
\* last "}" of the text; no match unless a "}" follows the first "{".
JsonMatchFirstBraces(ts) ==
    LET opens  == IndicesOf(ts, "{")
        closes == IndicesOf(ts, "}")
    IN  IF opens = {} \/ closes = {}
        THEN [found |-> FALSE, span |-> <<>>]
        ELSE [found |-> TRUE, span |-> SubSeq(ts, Min(opens), Max(closes))]

\* a lazy match, /\{[\s\S]*?\}/ : from the first "{" to the first "}" after it
JsonMatchLazy(ts) ==
    LET opens  == IndicesOf(ts, "{")
        after  == {j \in IndicesOf(ts, "}") : opens # {} /\ j > Min(opens)}
    IN  IF opens = {} \/ after = {}
        THEN [found |-> FALSE, span |-> <<>>]
        ELSE [found |-> TRUE, span |-> SubSeq(ts, Min(opens), Min(after))]

JsonMatch(ts) ==
    LET opens  == IndicesOf(ts, "{")
        closes == IndicesOf(ts, "}")
    IN  IF opens = {} \/ closes = {} \/ Max(closes) < Min(opens)
        THEN [found |-> FALSE, span |-> <<>>]
        ELSE [found |-> TRUE, span |-> SubSeq(ts, Min(opens), Max(closes))]

\* line 541: Math.min(Math.max(condition.confidence || 0.5, 0), 1)
ConfidenceOf(c) ==
    MathMin(MathMax(JsOr(Get(c, "confidence"), Num(ConfidenceDefault)),
                    Num(ConfidenceMin)),
            Num(ConfidenceMax))

\* line 542 with ?? in the place of || : only null and undefined default
UrgencyOfNullish(c) ==
    IF Get(c, "urgency").t \in {"undefined", "null"}
    THEN Str("low") ELSE Get(c, "urgency")

\* line 542: condition.urgency || 'low'
UrgencyOf(c) == JsOr(Get(c, "urgency"), Str("low"))

\* lines 539-545: the record built from one element of conditions
MapCondition(c) ==
    [condition   |-> Get(c, "condition"),
     confidence  |-> ConfidenceOf(c),
     urgency     |-> UrgencyOf(c),
     steps       |-> JsOr(Get(c, "steps"), Arr(<<>>)),
     description |-> JsOr(Get(c, "description"), Str(""))]

\* a map that walks the array from its end
MapConditionsReversed(cs) ==
    [i \in 1..Len(cs) |-> MapCondition(cs[Len(cs) + 1 - i])]

\* parsed.conditions.map(condition => ({...}))
MapConditions(cs) == [i \in 1..Len(cs) |-> MapCondition(cs[i])]

\* what a call of parseAIResponse ends in: the records it returns, or the
\* Error it throws ("Failed to parse AI response: " + the first failure);
\* jsonParsed tells whether JSON.parse was called.
Returned(records) ==
    [ok |-> TRUE, records |-> records, error |-> "none", jsonParsed |-> TRUE]
Thrown(kind, jsonParsed) ==
    [ok |-> FALSE, records |-> <<>>, error |-> kind, jsonParsed |-> jsonParsed]

parseAIResponse(ts) ==
    LET m == JsonMatch(ts)
    IN  IF ~m.found THEN Thrown("NoJsonFound", FALSE)
        ELSE LET p == JSONParse(m.span)
             IN  IF ~p.ok THEN Thrown("MalformedJson", TRUE)
                 ELSE LET cs == Get(p.v, "conditions")
                      IN  IF ~Truthy(cs) \/ ~IsArray(cs)
                          THEN Thrown("InvalidStructure", TRUE)
                          ELSE IF \E i \in 1..Len(cs.a) : cs.a[i].t = "null"
                          THEN Thrown("TypeError", TRUE)
                          ELSE Returned(MapConditions(cs.a))

\* AIService.getMockFallback
getMockFallback ==
    <<[condition   |-> Str("General Health Assessment"),
       confidence  |-> Num(MockConfidence),
       urgency     |-> Str("low"),
       steps       |-> Arr(<<Str("Monitor your symptoms closely"),
                             Str("Get adequate rest and stay hydrated"),
                             Str("Consider over-the-counter pain relief if appropriate"),
                             Str("Consult a healthcare professional if symptoms worsen or persist")>>),
       description |-> Str("Based on your symptoms, it's important to monitor your condition and seek professional medical advice.")]>>

(***************************************************************************)
(* The inputs of the normalizer                                            *)
(***************************************************************************)
MaxConditions == 2      \* longest conditions array built over CoreElements
MaxProse == 1           \* longest run of tokens around a document
MaxRaw == 3             \* longest text that was not written from a document

SeqsUpTo(S, n) == UNION {[1..k -> S] : k \in 0..n}

Element(name, key, v) ==
    Obj(<<Member("condition", Str(name)), Member(key, v)>>)

ConfidenceValues ==
    {Null, Num(-3), Num(0), Num(5), Num(8), Num(10), Num(14),
     Str(""), Str("abc"), Str("0.8"), Str("1.4"),
     Bool(TRUE), Bool(FALSE), Arr(<<>>), Obj(<<>>)}

UrgencyValues ==
    {Null, Str(""), Str("low"), Str("medium"), Str("high"), Str("critical"),
     Num(0), Bool(FALSE)}

\* the element of the worked example of the specification
FluElement ==
    Obj(<<Member("condition", Str("Flu")), Member("confidence", Num(14)),
          Member("urgency", Str("high")),
          Member("steps", Arr(<<Str("rest")>>))>>)

RashElement ==
    Obj(<<Member("condition", Str("Rash")), Member("confidence", Num(8)),
          Member("urgency", Str("medium")),
          Member("steps", Arr(<<Str("see a doctor")>>)),
          Member("description", Str("skin irritation")),
          Member("visual_analysis", Str("red patches"))>>)

CoreElements ==
    {FluElement, RashElement, Null, Num(7), Obj(<<>>),
     Element("Cold", "confidence", Num(0)),
     Element("Migraine", "urgency", Str("critical")),
     Element("Allergy", "urgency", Str(""))}

Elements ==
    CoreElements
    \cup {Element("Flu", "confidence", c) : c \in ConfidenceValues}
    \cup {Element("Cold", "urgency", u) : u \in UrgencyValues}
    \cup {Str("x"), Arr(<<>>), Bool(TRUE),
          Obj(<<Member("confidence", Num(2)), Member("confidence", Num(8))>>)}

ConditionArrays ==
    SeqsUpTo(CoreElements, MaxConditions) \cup {<<e>> : e \in Elements}

DocOf(cs) == Obj(<<Member("conditions", Arr(cs))>>)

\* the shape the prompt asks for: conditions, then the advice members
DocWithAdvice(cs) ==
    Obj(<<Member("conditions", Arr(cs)),
          Member("general_advice", Str("rest")),
          Member("disclaimer", Str("educational"))>>)

\* well-formed objects without a conditions array
ShapelessDocs ==
    {Obj(<<>>), Obj(<<Member("general_advice", Str("rest"))>>)}
    \cup {Obj(<<Member("conditions", v)>>) :
            v \in {Null, Num(0), Num(3), Str(""), Str("none"), Bool(TRUE),
                   Obj(<<>>), Obj(<<Member("0", FluElement)>>)}}

FewDocs ==
    {DocOf(<<>>), DocOf(<<FluElement>>), DocOf(<<FluElement, RashElement>>),
     Obj(<<>>)}

AllDocs ==
    {DocOf(cs) : cs \in ConditionArrays}
    \cup {DocWithAdvice(cs) : cs \in {<<>>, <<FluElement>>, <<RashElement, FluElement>>}}
    \cup ShapelessDocs

ProseTokens == {Prose, Space, LBrace, RBrace}
RawTokens == {Prose, LBrace, RBrace, StrTok("conditions"), Tok(":")}

\* a document with its first or its last token cut off
DropFirst(ts) == SubSeq(ts, 2, Len(ts))
DropLast(ts) == SubSeq(ts, 1, Len(ts) - 1)
Truncations(d) == {DropFirst(Stringify(d)), DropLast(Stringify(d))}

Input(pre, d, suf) == [prefix |-> pre, doc |-> d, suffix |-> suf]

NormInputs ==
    {Input(pre, d, suf) :
        pre \in {<<>>, <<Prose, Space>>}, d \in AllDocs,
        suf \in {<<>>, <<Space, Prose>>}}
    \cup {Input(pre, d, suf) :
        pre \in SeqsUpTo(ProseTokens, MaxProse), d \in FewDocs,
        suf \in SeqsUpTo(ProseTokens, MaxProse)}
    \cup {Input(raw, Undefined, <<>>) : raw \in SeqsUpTo(RawTokens, MaxRaw)}
    \cup {Input(cut, Undefined, <<>>) :
        cut \in UNION {Truncations(d) : d \in FewDocs}}

TextOf(in) ==
    in.prefix
    \o (IF in.doc.t = "undefined" THEN <<>> ELSE Stringify(in.doc))
    \o in.suffix

NotParsed == Thrown("notCalled", FALSE)

(***************************************************************************)
(* The process environment and AIService construction                      *)
(***************************************************************************)
Services == {"gemini", "openai", "azure", "anthropic"}

Config(apiKey, endpoint, deploymentName) ==
    [defined |-> TRUE, apiKey |-> apiKey, endpoint |-> endpoint,
     deploymentName |-> deploymentName]

\* AI_CONFIG[AI_SERVICE] of a service id the table does not have
NoConfig ==
    [defined |-> FALSE, apiKey |-> FALSE, endpoint |-> FALSE,
     deploymentName |-> FALSE]

\* lines 192-216: the selector and the fields the environment may or may
\* not set; only azure has an endpoint and a deployment name.
Environments ==
    {[service |-> s, config |-> Config(k, FALSE, FALSE)] :
        s \in {"gemini", "openai", "anthropic"}, k \in BOOLEAN}
    \cup {[service |-> "azure", config |-> Config(k, e, d)] :
        k \in BOOLEAN, e \in BOOLEAN, d \in BOOLEAN}
    \cup {[service |-> "palm", config |-> NoConfig]}

\* AIService.validateConfig: TRUE when it returns, FALSE when it throws
validateConfig(service, cfg) ==
    /\ cfg.defined
    /\ ~(service = "gemini" /\ ~cfg.apiKey)
    /\ ~(service = "openai" /\ ~cfg.apiKey)
    /\ ~(service = "azure"
         /\ (~cfg.apiKey \/ ~cfg.endpoint \/ ~cfg.deploymentName))
    /\ ~(service = "anthropic" /\ ~cfg.apiKey)

\* new AIService(): the constructor ends normally iff validateConfig does
NewAIService == validateConfig(AI_SERVICE, config)

\* getAIService: the instance it returns ("null" when construction threw)
getAIService ==
    IF aiServiceInstance = "null"
    THEN (IF NewAIService THEN "instance" ELSE "null")
    ELSE aiServiceInstance

(***************************************************************************)
(* SymptomForm                                                             *)
(***************************************************************************)
MaxFreeText == 2        \* longest text typed into the text area
MaxInFlight == 2        \* requests the model can hold unsettled at once
MaxImages == 3          \* maxImages of ImageUpload

COMMON_SYMPTOMS == {"Fever", "Headache"}
Chars == {"a", ",", " "}
FreeTexts == SeqsUpTo(Chars, MaxFreeText)

\* String.prototype.split(','): the pieces between the commas
RECURSIVE Split(_, _, _)
Split(s, i, cur) ==
    IF i > Len(s) THEN <<cur>>
    ELSE IF s[i] = "," THEN <<cur>> \o Split(s, i + 1, <<>>)
    ELSE Split(s, i + 1, Append(cur, s[i]))

\* String.prototype.trim
RECURSIVE Trim(_)
Trim(s) ==
    IF s = <<>> THEN s
    ELSE IF Head(s) = " " THEN Trim(Tail(s))
    ELSE IF s[Len(s)] = " " THEN Trim(SubSeq(s, 1, Len(s) - 1))
    ELSE s

\* the pieces of the text without filter(Boolean)
FreeTextPartsUnfiltered(text) ==
    IF text = <<>> THEN <<>>
    ELSE LET pieces == Split(text, 1, <<>>)
         IN  [i \in 1..Len(pieces) |-> Trim(pieces[i])]

\* lines 43-46: the ticked symptoms, then the non-blank pieces of the text
FreeTextParts(text) ==
    IF text = <<>> THEN <<>>
    ELSE LET pieces == Split(text, 1, <<>>)
             trimmed == [i \in 1..Len(pieces) |-> Trim(pieces[i])]
             NonEmpty(x) == x # <<>>
         IN  SelectSeq(trimmed, NonEmpty)

allSymptoms == selectedSymptoms \o FreeTextParts(freeTextSymptoms)

\* App line 93: the form is rendered while results is null
FormMounted == ~results.set

\* a submit button that is never disabled
SubmitNeverDisabled == FALSE

\* line 129: disabled={isLoading}
SubmitDisabled == isLoading

(***************************************************************************)
(* Requests                                                                *)
(***************************************************************************)
NoResults == [set |-> FALSE, records |-> <<>>]
Shown(records) == [set |-> TRUE, records |-> records]

Unsettled(r) == r.phase \in {"Requesting", "Failed"}
Terminal(r) == r.phase \in {"Succeeded", "FallbackServed", "Rejected"}
InFlight == SelectSeq(requests, Unsettled)

\* JavaScript runs a handler and the promise continuations it wakes to the
\* end before it takes the next event: while a continuation is due, neither
\* the user nor the network is served.
MicrotaskPending ==
    \E i \in 1..Len(requests) :
        \/ requests[i].phase = "Failed"
        \/ Terminal(requests[i]) /\ ~requests[i].delivered

\* lines 315-317: the template the prompt is rendered from
PromptTemplate(imgs) == IF imgs > 0 THEN "MEDICAL_PROMPT_WITH_IMAGES" ELSE "MEDICAL_PROMPT"

\* every provider call attaching the images it is given
InlineImagesAll(service, imgs) == imgs

\* callGemini reads each image it is given and pushes one inline_data part
\* per image read; callOpenAI, callAzureOpenAI and callAnthropic never read
\* their images parameter
InlineImages(service, imgs) == IF service = "gemini" THEN imgs ELSE 0

\* line 589/599: diagnose(symptoms) has no images parameter and calls
\* aiService.diagnose(symptoms), whose images parameter defaults to []
DiagnoseImages(imgs) == 0

NewRequest(phase, failure, imgs) ==
    [phase |-> phase, step |-> IF phase = "Requesting" THEN "fetch" ELSE "none",
     httpOk |-> TRUE,
     fetches |-> IF phase = "Requesting" THEN 1 ELSE 0,
     failure |-> failure,
     ret |-> <<>>,
     delivered |-> FALSE,
     submittedImages |-> imgs,
     template |-> IF phase = "Requesting"
                  THEN PromptTemplate(DiagnoseImages(imgs)) ELSE "none",
     toEncode |-> IF phase = "Requesting"
                  THEN InlineImages(AI_SERVICE, DiagnoseImages(imgs)) ELSE 0,
     inlineImages |-> 0,
     body |-> <<>>]

\* lines 589-599 up to the first suspension: the state diagnose() leaves the
\* request in.  Without a service, line 594 constructs a second AIService,
\* whose constructor validates the same configuration.
DiagnoseStart(imgs) ==
    IF getAIService = "null"
    THEN IF NewAIService
         THEN [NewRequest("FallbackServed", "ConfigurationError", imgs)
                  EXCEPT !.ret = getMockFallback]
         ELSE NewRequest("Rejected", "ConfigurationError", imgs)
    ELSE NewRequest("Requesting", "none", imgs)

\* a top-level catch that lets the error through
DiagnoseCatchRethrow(r) == [r EXCEPT !.phase = "Rejected"]

\* lines 600-604: the catch of the top-level diagnose
DiagnoseCatchResult(r) ==
    IF NewAIService
    THEN [r EXCEPT !.phase = "FallbackServed", !.ret = getMockFallback]
    ELSE [r EXCEPT !.phase = "Rejected"]

(***************************************************************************)
(* Provider responses                                                      *)
(***************************************************************************)
\* the JSON body of a response: the provider's envelope around the text
Envelope(wrapper, hasText, text) ==
    [json |-> TRUE, wrapper |-> wrapper, hasText |-> hasText, text |-> text]
NotJsonBody == [json |-> FALSE, wrapper |-> FALSE, hasText |-> FALSE, text |-> <<>>]

FlowTexts ==
    {<<Prose, Space>> \o Stringify(DocOf(<<FluElement>>)) \o <<Space, Prose>>,
     Stringify(DocOf(<<>>)),
     Stringify(DocOf(<<Element("Migraine", "urgency", Str("critical")), RashElement>>)),
     Stringify(DocOf(<<Null>>)),
     Stringify(Obj(<<>>)),
     DropLast(Stringify(DocOf(<<FluElement>>))),
     <<Prose>>}

Bodies ==
    {NotJsonBody, Envelope(FALSE, FALSE, <<>>), Envelope(TRUE, FALSE, <<>>)}
    \cup {Envelope(TRUE, TRUE, t) : t \in FlowTexts}

\* the lines of call<Provider> after response.json(): the envelope is
\* unwrapped (a missing level throws) and the text goes to parseAIResponse,
\* where a text that is no string throws a TypeError at .match
Unwrap(body) ==
    IF ~body.json THEN Thrown("BodyNotJson", FALSE)
    ELSE IF ~body.wrapper THEN Thrown("BadEnvelope", FALSE)
    ELSE IF ~body.hasText THEN Thrown("TypeError", FALSE)
    ELSE parseAIResponse(body.text)

(***************************************************************************)
(* Initial states                                                          *)
(***************************************************************************)
FormInit ==
    /\ freeTextSymptoms = <<>>
    /\ selectedSymptoms = <<>>
    /\ images = 0
    /\ isLoading = FALSE
    /\ alerted = FALSE

FlowInit ==
    /\ aiServiceInstance = "null"
    /\ FormInit
    /\ results = NoResults
    /\ hasImages = FALSE
    /\ requests = <<>>

NormIdle ==
    /\ responseText = <<>>
    /\ doc = Undefined
    /\ prefix = <<>>
    /\ suffix = <<>>
    /\ parseResult = NotParsed
    /\ normPc = "off"

Init ==
    /\ \E e \in Environments : AI_SERVICE = e.service /\ config = e.config
    /\ FlowInit
    /\ NormIdle

(***************************************************************************)
(* Actions of the request flow                                             *)
(***************************************************************************)
\* SymptomForm.handleSymptomToggle
handleSymptomToggle(symptom) ==
    /\ FormMounted /\ ~MicrotaskPending
    /\ selectedSymptoms' =
          IF \E i \in 1..Len(selectedSymptoms) : selectedSymptoms[i] = symptom
          THEN SelectSeq(selectedSymptoms, LAMBDA x : x # symptom)
          ELSE Append(selectedSymptoms, symptom)
    /\ alerted' = FALSE
    /\ UNCHANGED <<freeTextSymptoms, images, isLoading>>
    /\ UNCHANGED <<normVars, envVars, appVars, requests>>

\* the text area's onChange
setFreeTextSymptoms(text) ==
    /\ FormMounted /\ ~MicrotaskPending
    /\ freeTextSymptoms' = text
    /\ alerted' = FALSE
    /\ UNCHANGED <<selectedSymptoms, images, isLoading>>
    /\ UNCHANGED <<normVars, envVars, appVars, requests>>

\* ImageUpload's onImagesChange
setImages(n) ==
    /\ FormMounted /\ ~MicrotaskPending
    /\ images' = n
    /\ alerted' = FALSE
    /\ UNCHANGED <<freeTextSymptoms, selectedSymptoms, isLoading>>
    /\ UNCHANGED <<normVars, envVars, appVars, requests>>

\* SymptomForm.handleSubmit, with App.handleSubmitSymptoms and diagnose, up
\* to the first suspension.  The button takes no click while it is disabled.
handleSubmit ==
    /\ FormMounted /\ ~MicrotaskPending
    /\ ~SubmitDisabled
    /\ \/ /\ Len(allSymptoms) = 0            \* alert(...); return
          /\ alerted' = TRUE
          /\ UNCHANGED <<freeTextSymptoms, selectedSymptoms, images, isLoading>>
          /\ UNCHANGED <<normVars, envVars, appVars, requests>>
       \/ /\ Len(allSymptoms) > 0
          /\ Len(InFlight) < MaxInFlight
          /\ alerted' = FALSE
          /\ isLoading' = TRUE
          /\ hasImages' = (images > 0)
          /\ aiServiceInstance' = getAIService
          /\ requests' = Append(InFlight, DiagnoseStart(images))
          /\ UNCHANGED <<freeTextSymptoms, selectedSymptoms, images, results>>
          /\ UNCHANGED <<normVars, AI_SERVICE, config>>

\* the fetch of call<Provider> settles: it rejects (network error) or
\* resolves with a response whose ok flag is set or not
FetchSettle(i, outcome) ==
    /\ ~MicrotaskPending
    /\ requests[i].phase = "Requesting" /\ requests[i].step = "fetch"
    /\ requests' = [requests EXCEPT ![i] =
          CASE outcome = "reject" ->
                  [@ EXCEPT !.phase = "Failed", !.step = "none",
                            !.failure = "NetworkError"]
            [] outcome = "ok" -> [@ EXCEPT !.step = "body"]
            [] OTHER -> [@ EXCEPT !.step = "body", !.httpOk = FALSE]]
    /\ UNCHANGED <<normVars, envVars, formVars, appVars>>

\* response.json() settles; the rest of call<Provider> and of
\* AIService.diagnose runs: either the records are returned, or the error is
\* caught at line 331 and thrown again as "AI diagnosis failed: ..."
BodySettle(i, body) ==
    /\ ~MicrotaskPending
    /\ requests[i].phase = "Requesting" /\ requests[i].step = "body"
    /\ LET out == Unwrap(body)
       IN  requests' = [requests EXCEPT ![i] =
              IF ~@.httpOk
              THEN [@ EXCEPT !.phase = "Failed", !.step = "none",
                             !.failure = "HttpError", !.body = <<body>>]
              ELSE IF out.ok
              THEN [@ EXCEPT !.phase = "Succeeded", !.step = "none",
                             !.ret = out.records, !.body = <<body>>]
              ELSE [@ EXCEPT !.phase = "Failed", !.step = "none",
                             !.failure = out.error, !.body = <<body>>]]
    /\ UNCHANGED <<normVars, envVars, formVars, appVars>>

\* a catch that also throws the cached service away
DiagnoseCatchForgetsInstance(i) ==
    /\ requests[i].phase = "Failed"
    /\ requests' = [requests EXCEPT ![i] = DiagnoseCatchResult(@)]
    /\ aiServiceInstance' = "null"
    /\ UNCHANGED <<normVars, AI_SERVICE, config, formVars, appVars>>

\* the catch of the top-level diagnose takes the rejected provider call
DiagnoseCatch(i) ==
    /\ requests[i].phase = "Failed"
    /\ requests' = [requests EXCEPT ![i] = DiagnoseCatchResult(@)]
    /\ UNCHANGED <<normVars, envVars, formVars, appVars>>

\* the resumption with a plain try, whose rejection skips setIsLoading(false)
SubmitResumeNoFinally(i) ==
    /\ Terminal(requests[i]) /\ ~requests[i].delivered
    /\ requests' = [requests EXCEPT ![i].delivered = TRUE]
    /\ IF requests[i].phase = "Rejected"
       THEN UNCHANGED <<freeTextSymptoms, selectedSymptoms, images, results,
                        isLoading>>
       ELSE /\ results' = Shown(requests[i].ret)
            /\ freeTextSymptoms' = <<>>
            /\ selectedSymptoms' = <<>>
            /\ images' = 0
            /\ isLoading' = FALSE
    /\ UNCHANGED <<normVars, envVars, hasImages, alerted>>

\* the await in App.handleSubmitSymptoms (line 20) and the one in
\* SymptomForm.handleSubmit (line 56) resume: setResults when diagnose
\* resolved, and the finally block in either case.  With results set the
\* form is unmounted; it is mounted anew, in its initial state, by NewSearch.
SubmitResume(i) ==
    /\ Terminal(requests[i]) /\ ~requests[i].delivered
    /\ requests' = [requests EXCEPT ![i].delivered = TRUE]
    /\ IF requests[i].phase = "Rejected"
       THEN /\ isLoading' = FALSE
            /\ UNCHANGED <<freeTextSymptoms, selectedSymptoms, images, results>>
       ELSE /\ results' = Shown(requests[i].ret)
            /\ freeTextSymptoms' = <<>>
            /\ selectedSymptoms' = <<>>
            /\ images' = 0
            /\ isLoading' = FALSE
    /\ UNCHANGED <<normVars, envVars, hasImages, alerted>>

\* App line 115: the New Search button
NewSearch ==
    /\ results.set /\ ~MicrotaskPending
    /\ results' = NoResults
    /\ UNCHANGED <<normVars, envVars, formVars, hasImages, requests>>

Next ==
    \/ \E s \in COMMON_SYMPTOMS : handleSymptomToggle(s)
    \/ \E t \in FreeTexts : setFreeTextSymptoms(t)
    \/ \E n \in 0..MaxImages : setImages(n)
    \/ handleSubmit
    \/ \E i \in 1..Len(requests) :
          \E o \in {"reject", "ok", "notOk"} : FetchSettle(i, o)
    \/ \E i \in 1..Len(requests) : \E b \in Bodies : BodySettle(i, b)
    \/ \E i \in 1..Len(requests) : DiagnoseCatch(i)
    \/ \E i \in 1..Len(requests) : SubmitResume(i)
    \/ NewSearch

Spec == Init /\ [][Next]_vars

(***************************************************************************)
(* The normalizer on its own: one call of parseAIResponse per text         *)
(***************************************************************************)
NormInit ==
    /\ \E in \in NormInputs :
          /\ prefix = in.prefix
          /\ doc = in.doc
          /\ suffix = in.suffix
          /\ responseText = TextOf(in)
    /\ parseResult = NotParsed
    /\ normPc = "ready"
    /\ AI_SERVICE = "gemini" /\ config = Config(TRUE, FALSE, FALSE)
    /\ FlowInit

Normalize ==
    /\ normPc = "ready"
    /\ parseResult' = parseAIResponse(responseText)
    /\ normPc' = "done"
    /\ UNCHANGED <<responseText, doc, prefix, suffix, flowVars>>

NormNext == Normalize

NormSpec == NormInit /\ [][NormNext]_vars

(***************************************************************************)
(* AIService.diagnose called on its own, with the images handed to it      *)
(***************************************************************************)
MaxServiceCalls == 1    \* calls of AIService.diagnose unsettled at once

\* lines 310-325 up to the first suspension: the template follows the
\* images, and callGemini starts reading them before it fetches
ServiceRequest(imgs) ==
    LET enc == InlineImages(AI_SERVICE, imgs)
    IN  [NewRequest("Requesting", "none", imgs) EXCEPT
            !.template = PromptTemplate(imgs),
            !.toEncode = enc,
            !.step = IF enc > 0 THEN "encode" ELSE "fetch",
            !.fetches = IF enc > 0 THEN 0 ELSE 1]

\* an AIService exists only under a configuration its constructor accepts
ServiceInit ==
    /\ \E e \in Environments :
          /\ validateConfig(e.service, e.config)
          /\ AI_SERVICE = e.service /\ config = e.config
    /\ aiServiceInstance = "instance"
    /\ FormInit
    /\ results = NoResults
    /\ hasImages = FALSE
    /\ requests = <<>>
    /\ NormIdle

\* aiService.diagnose(symptoms, images) with n images
ServiceDiagnose(n) ==
    /\ ~MicrotaskPending
    /\ Len(InFlight) < MaxServiceCalls
    /\ requests' = Append(InFlight, ServiceRequest(n))
    /\ UNCHANGED <<normVars, envVars, formVars, appVars>>

\* lines 344-357: fileToBase64 of the next image settles; a part is pushed
\* when it resolved, the image is left out when it rejected, and after the
\* last image the fetch is issued
EncodeImage(i, ok) ==
    /\ ~MicrotaskPending
    /\ requests[i].phase = "Requesting" /\ requests[i].step = "encode"
    /\ LET r    == requests[i]
           left == r.toEncode - 1
       IN  requests' = [requests EXCEPT ![i] =
              [r EXCEPT !.toEncode = left,
                        !.inlineImages = IF ok THEN r.inlineImages + 1
                                               ELSE r.inlineImages,
                        !.step = IF left = 0 THEN "fetch" ELSE "encode",
                        !.fetches = IF left = 0 THEN 1 ELSE 0]]
    /\ UNCHANGED <<normVars, envVars, formVars, appVars>>

\* the caller's await resumes with the records, or with the error thrown at
\* line 333
ServiceResume(i) ==
    /\ requests[i].phase \in {"Failed", "Succeeded"}
    /\ ~requests[i].delivered
    /\ requests' = [requests EXCEPT ![i] =
          [requests[i] EXCEPT
              !.delivered = TRUE,
              !.phase = IF requests[i].phase = "Failed"
                        THEN "Rejected" ELSE "Succeeded"]]
    /\ UNCHANGED <<normVars, envVars, formVars, appVars>>

ServiceNext ==
    \/ \E n \in 0..MaxImages : ServiceDiagnose(n)
    \/ \E i \in 1..Len(requests) : \E ok \in BOOLEAN : EncodeImage(i, ok)
    \/ \E i \in 1..Len(requests) :
          \E o \in {"reject", "ok", "notOk"} : FetchSettle(i, o)
    \/ \E i \in 1..Len(requests) : \E b \in Bodies : BodySettle(i, b)
    \/ \E i \in 1..Len(requests) : ServiceResume(i)

ServiceSpec == ServiceInit /\ [][ServiceNext]_vars

(***************************************************************************)
(* The exported diagnose called on its own, several calls at a time        *)
(***************************************************************************)
MaxCalls == 2           \* calls of diagnose in one run

\* diagnose(symptoms), lines 589-599 up to the first suspension
Diagnose ==
    /\ ~MicrotaskPending
    /\ Len(requests) < MaxCalls
    /\ aiServiceInstance' = getAIService
    /\ requests' = Append(requests, DiagnoseStart(0))
    /\ UNCHANGED <<normVars, AI_SERVICE, config, formVars, appVars>>

\* the caller's await resumes with what diagnose returned or threw
DiagnoseResume(i) ==
    /\ Terminal(requests[i]) /\ ~requests[i].delivered
    /\ requests' = [requests EXCEPT ![i].delivered = TRUE]
    /\ UNCHANGED <<normVars, envVars, formVars, appVars>>

DiagnoseNext ==
    \/ Diagnose
    \/ \E i \in 1..Len(requests) :
          \E o \in {"reject", "ok", "notOk"} : FetchSettle(i, o)
    \/ \E i \in 1..Len(requests) : \E b \in Bodies : BodySettle(i, b)
    \/ \E i \in 1..Len(requests) : DiagnoseCatch(i)
    \/ \E i \in 1..Len(requests) : DiagnoseResume(i)

DiagnoseSpec == Init /\ [][DiagnoseNext]_vars

(***************************************************************************)
(* Properties                                                              *)
(***************************************************************************)
Requests == {requests[i] : i \in 1..Len(requests)}

\* the ways a provider call fails once it was made
ProviderFailures ==
    {"NetworkError", "HttpError", "BodyNotJson", "BadEnvelope",
     "NoJsonFound", "MalformedJson", "InvalidStructure", "TypeError"}

IsFallbackSet(records) ==
    /\ Len(records) = 1
    /\ records[1].condition = Str("General Health Assessment")

\* C1: whenever the call of a validly configured provider fails (network
\* error, non-2xx status, unreadable body, malformed envelope, or a text
\* the normalizer rejects), the top-level diagnose does not reject: the
\* failure is caught and diagnose resolves with the fallback set, exactly one
\* record, whose condition is 'General Health Assessment'.
C1_FallbackOnProviderFailure ==
    \A r \in Requests :
        r.failure \in ProviderFailures =>
            /\ r.phase \in {"Failed", "FallbackServed"}
            /\ r.phase = "FallbackServed" => IsFallbackSet(r.ret)
            /\ r.delivered => r.phase = "FallbackServed"

C1_Witness ==
    \E r \in Requests :
        /\ r.failure = "MalformedJson"
        /\ r.phase = "FallbackServed"
        /\ r.delivered
        /\ results = Shown(r.ret)
        /\ IsFallbackSet(results.records)

\* C2: with a missing or incomplete configuration of the selected provider
\* every diagnosis request resolves with the offline fallback set and never
\* rejects.
C2_FallbackOnMissingConfig ==
    \A r \in Requests :
        ~validateConfig(AI_SERVICE, config) =>
            /\ r.phase = "FallbackServed"
            /\ IsFallbackSet(r.ret)

\* C3: every diagnosis request is in one of the states of
\* Idle -> Requesting -> {Succeeded, Failed -> FallbackServed}: it makes at
\* most one provider call, a succeeded request made exactly one and failed
\* none, a request that serves the fallback made exactly one that failed, and
\* no request ends anywhere else.
C3_RequestStateMachine ==
    \A r \in Requests :
        /\ r.phase \in {"Requesting", "Succeeded", "Failed", "FallbackServed"}
        /\ r.fetches <= 1
        /\ r.phase = "Succeeded" => r.fetches = 1 /\ r.failure = "none"
        /\ r.phase \in {"Failed", "FallbackServed"} =>
              r.fetches = 1 /\ r.failure \in ProviderFailures

\* C4: at most one diagnosis request is unsettled at any time, and while one
\* is, the form's submit button is disabled.
C4_SingleRequestInFlight ==
    /\ Len(InFlight) <= 1
    /\ Len(InFlight) = 1 => isLoading /\ Len(requests) = 1

C4_Witness ==
    /\ Len(InFlight) = 1
    /\ requests[1].phase = "Requesting" /\ requests[1].step = "body"
    /\ isLoading
    /\ FormMounted
    /\ Len(allSymptoms) > 0

\* ---- the normalizer ----
Done == normPc = "done"

\* the text was written from an object whose conditions member is an array
HasConditionsArray ==
    /\ doc.t = "object"
    /\ \E i \in 1..Len(doc.o) :
          /\ doc.o[i].k = "conditions"
          /\ doc.o[i].v.t = "array"
          /\ \A j \in 1..Len(doc.o) : doc.o[j].k = "conditions" => j = i

Conditions ==
    (CHOOSE m \in {doc.o[i] : i \in 1..Len(doc.o)} : m.k = "conditions").v.a

HasKind(ts, k) == \E i \in 1..Len(ts) : ts[i].k = k

OneRecordPerElement ==
    /\ parseResult.ok
    /\ Len(parseResult.records) = Len(Conditions)
    /\ \A i \in 1..Len(Conditions) :
          parseResult.records[i].condition = Get(Conditions[i], "condition")

C6_ConfidenceInUnitInterval ==
    /\ \A i \in 1..Len(getMockFallback) :
          /\ getMockFallback[i].confidence.t = "number"
          /\ getMockFallback[i].confidence.n \in ConfidenceMin..ConfidenceMax
    /\ (Done /\ parseResult.ok) =>
          \A i \in 1..Len(parseResult.records) :
             /\ parseResult.records[i].confidence.t = "number"
             /\ parseResult.records[i].confidence.n \in ConfidenceMin..ConfidenceMax

Clamp(n) ==
    IF n < ConfidenceMin THEN ConfidenceMin
    ELSE IF n > ConfidenceMax THEN ConfidenceMax ELSE n

\* C7: the confidence of a record is 0.5 exactly when the element's
\* confidence is absent or null, and otherwise the provider's number clamped
\* to [0,1]; a number inside [0,1], 0 included, comes out unchanged.
C7_ConfidenceNullishDefault ==
    (Done /\ HasConditionsArray /\ parseResult.ok) =>
        \A i \in 1..Len(parseResult.records) :
            LET c   == Get(Conditions[i], "confidence")
                out == parseResult.records[i].confidence
            IN  /\ c.t \in {"undefined", "null"} => out = Num(ConfidenceDefault)
                /\ c.t = "number" => out = Num(Clamp(c.n))

\* C8 as claimed: the urgency of a record is 'low' when the element's
\* urgency is missing, and the provider's value, unchanged, for every value
\* that is present, the empty string included.
C8_UrgencyPassThrough_Claimed ==
    (Done /\ HasConditionsArray /\ parseResult.ok) =>
        \A i \in 1..Len(parseResult.records) :
            LET u   == Get(Conditions[i], "urgency")
                out == parseResult.records[i].urgency
            IN  IF u.t \in {"undefined", "null"}
                THEN out = Str("low") ELSE out = u

IsFalsy(v) ==
    \/ v.t \in {"undefined", "null"}
    \/ v.t = "string" /\ v.s = ""
    \/ v.t = "number" /\ v.n = 0
    \/ v.t = "boolean" /\ v.b = FALSE

\* C8, amended: the urgency of a record is 'low' when the element's urgency
\* is missing or falsy (null, the empty string, 0, false), and the provider's
\* value, unchanged, for every other value, unrecognized strings included.
C8_UrgencyPassThrough ==
    (Done /\ HasConditionsArray /\ parseResult.ok) =>
        \A i \in 1..Len(parseResult.records) :
            LET u   == Get(Conditions[i], "urgency")
                out == parseResult.records[i].urgency
            IN  IF IsFalsy(u) THEN out = Str("low") ELSE out = u

C8_Witness ==
    /\ Done /\ HasConditionsArray /\ parseResult.ok
    /\ Len(Conditions) = 2
    /\ Get(Conditions[1], "urgency") = Str("critical")
    /\ parseResult.records[1].urgency = Str("critical")
    /\ Get(Conditions[2], "urgency") = Str("")
    /\ parseResult.records[2].urgency = Str("low")

\* C9: every record handed to the UI has an urgency that is one of low,
\* medium, high.
C9_UrgencyIsEnum ==
    results.set =>
        \A i \in 1..Len(results.records) :
            results.records[i].urgency \in {Str("low"), Str("medium"), Str("high")}

\* no "{" of the text has a "}" after it
NoBraceSpan(ts) ==
    ~ \E i \in 1..Len(ts) : \E j \in (i + 1)..Len(ts) :
          ts[i].k = "{" /\ ts[j].k = "}"

\* C10: a text in which no "{" is followed by a "}" fails with NoJsonFound:
\* no records come back and JSON.parse is not called.
C10_NoJsonFound ==
    (Done /\ NoBraceSpan(responseText)) =>
        /\ ~parseResult.ok
        /\ parseResult.error = "NoJsonFound"
        /\ parseResult.records = <<>>
        /\ ~parseResult.jsonParsed

C10_Witness ==
    /\ Done
    /\ HasKind(responseText, "{") /\ HasKind(responseText, "}")
    /\ NoBraceSpan(responseText)
    /\ parseResult.error = "NoJsonFound"
    /\ ~parseResult.jsonParsed

ClassifiedErrors == {"NoJsonFound", "MalformedJson", "InvalidStructure"}

\* C11: on every text the normalizer returns records or fails with one of
\* NoJsonFound, MalformedJson, InvalidStructure, the kind of the first stage
\* that fails (NoJsonFound exactly when the text has no brace span); no other
\* error leaves it, whatever the elements of conditions are.
C11_ClassifiedErrors ==
    Done =>
        /\ parseResult.ok \/ parseResult.error \in ClassifiedErrors
        /\ parseResult.error = "NoJsonFound" <=> NoBraceSpan(responseText)
        /\ parseResult.error = "InvalidStructure" => parseResult.jsonParsed

BraceFree(ts) == ~HasKind(ts, "{") /\ ~HasKind(ts, "}")

\* the record of the worked example of the specification
FluRecord ==
    [condition   |-> Str("Flu"),
     confidence  |-> Num(ConfidenceMax),
     urgency     |-> Str("high"),
     steps       |-> Arr(<<Str("rest")>>),
     description |-> Str("")]

\* C12: the JSON candidate runs from the first "{" to the last "}" of the
\* text, so brace-free prose around a JSON object changes nothing: the text
\* prose + J + prose is normalized as J alone is, and the worked example
\* ("Here is the result: {...} Thanks!") gives exactly the one Flu record.
C12_ProseIgnored ==
    (Done /\ doc.t = "object" /\ BraceFree(prefix) /\ BraceFree(suffix)) =>
        /\ JsonMatch(responseText).found
        /\ JsonMatch(responseText).span = Stringify(doc)
        /\ parseResult = parseAIResponse(Stringify(doc))
        /\ (doc = DocOf(<<FluElement>>) => parseResult.records = <<FluRecord>>)

C12_Witness ==
    /\ Done
    /\ prefix = <<Prose, Space>> /\ suffix = <<Space, Prose>>
    /\ doc = DocOf(<<FluElement>>)
    /\ parseResult.ok
    /\ parseResult.records = <<FluRecord>>

\* C13: a record carries the visual_analysis of its element when the element
\* has one, and has no such field when the element has none.
C13_VisualAnalysisPassedThrough ==
    (Done /\ HasConditionsArray /\ parseResult.ok) =>
        \A i \in 1..Len(parseResult.records) :
            LET v   == Get(Conditions[i], "visual_analysis")
                rec == parseResult.records[i]
            IN  IF v.t = "undefined"
                THEN "visual_analysis" \notin DOMAIN rec
                ELSE /\ "visual_analysis" \in DOMAIN rec
                     /\ rec.visual_analysis = v

\* C14: every request the form submits through the top-level diagnose sends
\* a prompt rendered from the image-aware template exactly when images were
\* submitted with it, and from the text-only template exactly when none were.
C14_TemplateFollowsImages ==
    \A r \in Requests :
        r.template # "none" =>
            /\ r.template = "MEDICAL_PROMPT_WITH_IMAGES" <=> r.submittedImages > 0
            /\ r.template = "MEDICAL_PROMPT" <=> r.submittedImages = 0

\* the documents a provider answers with when it follows the prompt
AnswerDocs ==
    {DocOf(<<FluElement>>), DocOf(<<>>),
     DocOf(<<Element("Migraine", "urgency", Str("critical")), RashElement>>)}

\* the body carries the document d as its text, bare or inside prose
IsAnswer(body, d) ==
    /\ body.json /\ body.wrapper /\ body.hasText
    /\ body.text \in {Stringify(d),
                     <<Prose, Space>> \o Stringify(d) \o <<Space, Prose>>}

ElementsOf(d) == Get(d, "conditions").a

\* C15: only callGemini puts images into its request.  A call of
\* AIService.diagnose with images on openai, azure or anthropic reads and
\* sends no image, and when the provider answers 2xx with a well-formed
\* diagnosis document the call resolves with the normalized records of that
\* document (never the fallback set), none of which has a visual_analysis.
C15_OnlyGeminiInlinesImages ==
    \A r \in Requests :
        /\ r.inlineImages + r.toEncode <= r.submittedImages
        /\ AI_SERVICE # "gemini" =>
              /\ r.inlineImages = 0 /\ r.toEncode = 0 /\ r.step # "encode"
              /\ \A d \in AnswerDocs :
                    (r.submittedImages > 0 /\ r.httpOk /\ r.body # <<>>
                        /\ IsAnswer(r.body[1], d)) =>
                       /\ r.phase = "Succeeded"
                       /\ r.failure = "none"
                       /\ Len(r.ret) = Len(ElementsOf(d))
                       /\ \A k \in 1..Len(r.ret) :
                             /\ r.ret[k].condition = Get(ElementsOf(d)[k], "condition")
                             /\ "visual_analysis" \notin DOMAIN r.ret[k]
                       /\ ~IsFallbackSet(r.ret)

C15_Witness ==
    /\ AI_SERVICE = "openai"
    /\ Len(requests) = 1
    /\ requests[1].submittedImages = 2
    /\ requests[1].template = "MEDICAL_PROMPT_WITH_IMAGES"
    /\ requests[1].phase = "Succeeded" /\ requests[1].delivered
    /\ requests[1].inlineImages = 0
    /\ Len(requests[1].ret) = 2
    /\ requests[1].ret[2].condition = Str("Rash")

\* the module-level state the requests share is never written again
ConfigImmutable ==
    /\ AI_SERVICE' = AI_SERVICE
    /\ config' = config
    /\ aiServiceInstance # "null" => aiServiceInstance' = aiServiceInstance

\* what a call took in and what the provider answered to it
Exchange(r) == <<r.submittedImages, r.fetches, r.httpOk, r.body>>

SameExchangeSameResult ==
    \A r1, r2 \in Requests :
        (Terminal(r1) /\ Terminal(r2) /\ Exchange(r1) = Exchange(r2)) =>
            r1.phase = r2.phase /\ r1.ret = r2.ret

\* C16: no step changes AI_SERVICE or the provider configuration, and the
\* cached service instance never changes once it is set; in every state,
\* two calls of diagnose that took the same input and got the same provider
\* response ended the same way with the same records, whatever happened to
\* the calls made before or beside them.
C16_NoStateAcrossRequests == [][ConfigImmutable /\ SameExchangeSameResult']_vars

C16_Witness ==
    /\ Len(requests) = 2
    /\ aiServiceInstance = "instance"
    /\ requests[1].delivered /\ requests[2].delivered
    /\ requests[1].body # <<>>
    /\ Exchange(requests[1]) = Exchange(requests[2])
    /\ requests[2].phase = "Succeeded"
    /\ requests[1].ret = requests[2].ret
    /\ Len(requests[2].ret) = 2

\* C17: the form's loading flag is set exactly while the onSubmit call of a
\* submit has not settled: it is set from the submit on, and it is clear
\* again as soon as onSubmit has resolved or rejected.
C17_LoadingWhileUnsettled ==
    /\ isLoading <=> \E r \in Requests : ~r.delivered
    /\ \A r \in Requests : r.delivered => ~isLoading

C17_Witness ==
    /\ Len(requests) = 1
    /\ requests[1].phase = "Rejected" /\ requests[1].delivered
    /\ ~isLoading
    /\ FormMounted
    /\ Len(allSymptoms) > 0

\* nothing ticked, and nothing in the text but commas and blanks
NoSymptom ==
    /\ selectedSymptoms = <<>>
    /\ \A i \in 1..Len(freeTextSymptoms) : freeTextSymptoms[i] \in {",", " "}

\* C18: a submit with no symptom (nothing ticked, the text empty or only
\* blank comma-separated entries) ends in the alert and starts no request:
\* the loading flag, the ticked symptoms, the text, the images, the results
\* and the requests are as before; the loading flag is set, and a request
\* started, only by a submit with at least one symptom.
C18_EmptySubmitStartsNothing ==
    [][/\ (~alerted /\ alerted') =>
             /\ NoSymptom
             /\ UNCHANGED <<isLoading, selectedSymptoms, freeTextSymptoms,
                            images, results, hasImages, requests>>
       /\ (~isLoading /\ isLoading') =>
             /\ ~NoSymptom
             /\ Len(requests') = 1
             /\ ~alerted']_vars

C18_Witness ==
    /\ alerted
    /\ selectedSymptoms = <<>>
    /\ freeTextSymptoms = <<" ", ",">>
    /\ images = 2
    /\ ~isLoading
    /\ requests = <<>>
    /\ ~results.set

====
